---- MODULE Spec2Model ----
(***************************************************************************)
(* Nested transaction managers of shogo82148/txmanager.                    *)
(*                                                                         *)
(*   txmanager.go          the counting variant (package txmanager)        *)
(*   savepoint/savepoint.go the savepoint variant (package savepoint)      *)
(*   txmanager.Do          the helper that runs a body in a nested unit    *)
(*                                                                         *)
(* One sequential caller drives the handles of one nesting tree (trees of  *)
(* different physical transactions share no state).  The database/sql      *)
(* objects (sql.DB, sql.Tx) are the environment: when the database is      *)
(* unreliable every physical statement may fail, and sql.Tx refuses every  *)
(* statement once it has been committed or rolled back.  SpecRace is the   *)
(* exception: there two threads share the handles of a tree.               *)
(***************************************************************************)
EXTENDS Integers, Sequences, FiniteSets, TLC

\* ------------------------------------------------------------------ bounds
MaxNodes  == 3     \* tx objects ever created
MaxHooks  == 2     \* end hooks ever registered
MaxWrites == 1     \* INSERT statements ever executed
MaxSave   == MaxNodes - 1   \* cap of the tree's saveCount
NumThreads == 2    \* threads that share a tree without serialization

\* ------------------------------------------------------- values and errors
Nil                == "nil"
ErrTxDone          == "sql.ErrTxDone"
ErrChildrenNotDone == "ErrChildrenNotDone"
ErrBegin           == "ErrBegin"       \* db.Begin failed
ErrCommit          == "ErrCommit"      \* sql.Tx.Commit failed
ErrRollback        == "ErrRollback"    \* sql.Tx.Rollback failed
ErrExec            == "ErrExec"        \* sql.Tx.Exec failed
ErrHook            == "ErrHook"        \* an end hook returned an error
ErrBody            == "ErrBody"        \* the body of Do returned an error
Panic              == "panic"          \* the body of Do panicked

Counting  == "counting"
Savepoint == "savepoint"
Variants  == {Counting, Savepoint}

RootHandle == 0    \* the db value returned by NewDB; also the nil *tx

VARIABLES
  variant,    \* which package's NewDB made the handle
  nodes,      \* sequence of tx structs, in order of creation
  ptx,        \* ptx[r]: the sql.Tx begun for the tree whose outermost node is r
  persisted,  \* writes that a successful physical COMMIT made durable
  wr,         \* history: wr[w] tells which node made the w-th INSERT, and
              \*   whether the node was not terminal then
  hookAt,     \* history: hookAt[h] is the node the h-th hook was registered on
  ran,        \* end hooks executed so far, in order of execution
  fate,       \* history: fate[n] tells which call set the done flag of n,
              \*   "commit" (a TxCommit that returned nil), "commit failed"
              \*   (a TxCommit that returned an error after it had set the
              \*   flag) or "rollback" (TxRollback)
  faulty,     \* the database is unreliable: its statements may fail
  stack,      \* nodes of the Do calls in progress, innermost last
  panicking,  \* a panic of a body is propagating
  inside,     \* inside[th]: the call of thread th that has passed its
              \*   terminal test and has not yet done anything else
  twin        \* SpecPair: the state of a counting controller that is
              \*   given the same calls as the savepoint controller

vars == <<variant, nodes, ptx, persisted, wr, hookAt, ran, fate, faulty,
          stack, panicking, inside, twin>>

NodeIds == 1..MaxNodes

\* ---------------------------------------------------------------- helpers
NoPtx == [state |-> "none", frames |-> <<>>, nBegin |-> 0, nCommit |-> 0,
          nRollback |-> 0]

\* The caller-visible state as one value, so that a call can be composed of
\* other calls (TxCommit calls TxRollback, Do calls TxCommit and TxFinish).
St == [nodes |-> nodes, ptx |-> ptx, persisted |-> persisted, wr |-> wr,
       hookAt |-> hookAt, ran |-> ran, fate |-> fate, sql |-> <<>>]

Stmt(k, nm, r, sent) == [k |-> k, name |-> nm, tree |-> r, sent |-> sent]

Log(s, st) == [s EXCEPT !.sql = Append(@, st)]

Res(s, ret) == [s |-> s, ret |-> ret, child |-> 0]

AllWrites(frames) == UNION {frames[i].ws : i \in 1..Len(frames)}

FrameIdx(frames, nm) ==
  IF \E i \in 1..Len(frames) : frames[i].name = nm
  THEN CHOOSE i \in 1..Len(frames) : frames[i].name = nm
  ELSE 0

IsDone(s, t) == s.nodes[t].done \/ s.nodes[s.nodes[t].root].done

\* ------------------------------------------------ the environment: sql.DB
\* sql.DB.Begin: a new physical transaction, or an error.
PhysBegin(s, r, ok) ==
  IF ok
  THEN Res([Log(s, Stmt("BEGIN", 0, r, TRUE)) EXCEPT
              !.ptx[r] = [state |-> "open",
                          frames |-> <<[name |-> 0, ws |-> {}]>>,
                          nBegin |-> 1, nCommit |-> 0, nRollback |-> 0]], Nil)
  ELSE Res(Log(s, Stmt("BEGIN", 0, r, TRUE)), ErrBegin)

\* sql.Tx.Commit: makes every write that was not undone durable.
PhysCommit(s, r, ok) ==
  LET p == s.ptx[r] IN
  IF p.state # "open"
  THEN Res(Log(s, Stmt("COMMIT", 0, r, FALSE)), ErrTxDone)
  ELSE IF ok
  THEN Res([Log(s, Stmt("COMMIT", 0, r, TRUE)) EXCEPT
              !.ptx[r].state = "committed",
              !.ptx[r].nCommit = @ + 1,
              !.ptx[r].frames = <<>>,
              !.persisted = @ \cup AllWrites(p.frames)], Nil)
  ELSE Res([Log(s, Stmt("COMMIT", 0, r, TRUE)) EXCEPT
              !.ptx[r].state = "failed",
              !.ptx[r].nCommit = @ + 1], ErrCommit)

\* sql.Tx.Rollback: ends the transaction and drops its writes; the call may
\* still report an error.  A sql.Tx on which Commit or Rollback was called
\* is done whatever the outcome was, also after a failed Commit: it sends
\* nothing and returns sql.ErrTxDone.
PhysRollback(s, r, ok) ==
  LET p == s.ptx[r] IN
  IF p.state # "open"
  THEN Res(Log(s, Stmt("ROLLBACK", 0, r, FALSE)), ErrTxDone)
  ELSE LET s1 == [Log(s, Stmt("ROLLBACK", 0, r, TRUE)) EXCEPT
                    !.ptx[r].state = "rolledback",
                    !.ptx[r].nRollback = @ + 1,
                    !.ptx[r].frames = <<>>]
       IN Res(s1, IF ok THEN Nil ELSE ErrRollback)

\* sql.Tx.Exec("SAVEPOINT name")
PhysSavepoint(s, r, nm, ok) ==
  LET p == s.ptx[r] IN
  IF p.state # "open"
  THEN Res(Log(s, Stmt("SAVEPOINT", nm, r, FALSE)), ErrTxDone)
  ELSE IF ~ok
  THEN Res(Log(s, Stmt("SAVEPOINT", nm, r, TRUE)), ErrExec)
  ELSE Res([Log(s, Stmt("SAVEPOINT", nm, r, TRUE)) EXCEPT
              !.ptx[r].frames = Append(@, [name |-> nm, ws |-> {}])], Nil)

\* sql.Tx.Exec("RELEASE SAVEPOINT name"): the savepoint and every later one
\* cease to exist, their writes stay in the transaction.
PhysRelease(s, r, nm, ok) ==
  LET p == s.ptx[r]
      f == p.frames
      i == FrameIdx(f, nm) IN
  IF p.state # "open"
  THEN Res(Log(s, Stmt("RELEASE", nm, r, FALSE)), ErrTxDone)
  ELSE IF ~ok
  THEN Res(Log(s, Stmt("RELEASE", nm, r, TRUE)), ErrExec)
  ELSE IF i = 0
  THEN Res(Log(s, Stmt("RELEASE", nm, r, TRUE)), ErrExec)
  ELSE Res([Log(s, Stmt("RELEASE", nm, r, TRUE)) EXCEPT
              !.ptx[r].frames =
                 SubSeq(f, 1, i - 2) \o
                 <<[f[i - 1] EXCEPT
                      !.ws = @ \cup UNION {f[j].ws : j \in i..Len(f)}]>>],
           Nil)

\* sql.Tx.Exec("ROLLBACK TO SAVEPOINT name"): the writes made since the
\* savepoint are undone, later savepoints cease to exist, the savepoint stays.
PhysRollbackTo(s, r, nm, ok) ==
  LET p == s.ptx[r]
      f == p.frames
      i == FrameIdx(f, nm) IN
  IF p.state # "open"
  THEN Res(Log(s, Stmt("ROLLBACK TO", nm, r, FALSE)), ErrTxDone)
  ELSE IF ~ok
  THEN Res(Log(s, Stmt("ROLLBACK TO", nm, r, TRUE)), ErrExec)
  ELSE IF i = 0
  THEN Res(Log(s, Stmt("ROLLBACK TO", nm, r, TRUE)), ErrExec)
  ELSE Res([Log(s, Stmt("ROLLBACK TO", nm, r, TRUE)) EXCEPT
              !.ptx[r].frames =
                 SubSeq(f, 1, i - 1) \o <<[name |-> nm, ws |-> {}]>>], Nil)

\* sql.Tx.Exec("INSERT ..."), promoted to tx through the embedded *sql.Tx: the
\* write lands in the innermost savepoint that is active.
PhysInsert(s, t) ==
  LET r == s.nodes[t].root
      p == s.ptx[r]
      w == Len(s.wr) + 1 IN
  IF p.state # "open"
  THEN Res(Log(s, Stmt("INSERT", 0, r, FALSE)), ErrTxDone)
  ELSE Res([Log(s, Stmt("INSERT", w, r, TRUE)) EXCEPT
              !.ptx[r].frames[Len(p.frames)].ws = @ \cup {w},
              !.wr = Append(@, [by |-> t, live |-> ~IsDone(s, t)])], Nil)

\* --------------------------------------------------------- shared pieces
\* history: the TxCommit that set the done flag of t returns res; when res
\* is an error, fate[t] tells so
Noted(res, t) ==
  IF res.ret = Nil THEN res ELSE [res EXCEPT !.s.fate[t] = "commit failed"]

NewNode(par, rt, nm) ==
  [parent |-> par, root |-> rt, childCount |-> 0, saveCount |-> 0,
   done |-> FALSE, name |-> nm, hooks |-> <<>>]

\* mutant: a hook error is remembered and the remaining hooks still run
RunHooks_NoStop(s, hooks, bad) ==
  Res([s EXCEPT !.ran = @ \o hooks],
      IF \E i \in 1..Len(hooks) : hooks[i] = bad THEN ErrHook ELSE Nil)

\* for _, h := range t.hooks { if err := h(); err != nil { return err } }
\* bad is the hook that returns an error (0: every hook returns nil).
RunHooks(s, hooks, bad) ==
  LET stop == IF \E i \in 1..Len(hooks) : hooks[i] = bad
              THEN CHOOSE i \in 1..Len(hooks) :
                     /\ hooks[i] = bad
                     /\ \A j \in 1..(i - 1) : hooks[j] # bad
              ELSE 0
  IN IF stop = 0
     THEN Res([s EXCEPT !.ran = @ \o hooks], Nil)
     ELSE Res([s EXCEPT !.ran = @ \o SubSeq(hooks, 1, stop)], ErrHook)

\* func (d *db) TxBegin, the same in both packages.
DbTxBegin(s, ok) ==
  LET c  == Len(s.nodes) + 1
      r1 == PhysBegin(s, c, ok) IN
  IF r1.ret # Nil
  THEN r1
  ELSE [s |-> [r1.s EXCEPT !.nodes = Append(@, NewNode(0, c, 0))],
        ret |-> Nil, child |-> c]

\* ------------------------------------------- txmanager.go, package txmanager
\* mutant: the child is made its own root-of-nesting
CountTxBegin_OwnRoot(s, t) ==
  LET c == Len(s.nodes) + 1 IN
  [s |-> [s EXCEPT !.nodes =
            Append([@ EXCEPT ![t].childCount = @ + 1], NewNode(t, c, 0))],
   ret |-> Nil, child |-> c]

CountTxBegin(s, t) ==
  LET c == Len(s.nodes) + 1 IN
  [s |-> [s EXCEPT !.nodes =
            Append([@ EXCEPT ![t].childCount = @ + 1],
                   NewNode(t, s.nodes[t].root, 0))],
   ret |-> Nil, child |-> c]

\* mutant: the rollback marks only the node, not the root-of-nesting
CountTxRollback_NodeOnly(s, t, ok) ==
  IF IsDone(s, t)
  THEN Res(s, ErrTxDone)
  ELSE PhysRollback([s EXCEPT !.nodes[t].done = TRUE,
                              !.fate[t] = "rollback"],
                    s.nodes[t].root, ok)

\* TxRollback past its terminal test
CountRollbackBody(s, t, ok) ==
  LET r  == s.nodes[t].root
      s1 == [s EXCEPT !.nodes[t].done = TRUE, !.fate[t] = "rollback"]
      s2 == [s1 EXCEPT !.nodes[r].done = TRUE]
  IN PhysRollback(s2, r, ok)

CountTxRollback(s, t, ok) ==
  IF IsDone(s, t)
  THEN Res(s, ErrTxDone)
  ELSE CountRollbackBody(s, t, ok)

\* mutant: the finish does not look at the done flags first
CountTxFinish_NoCheck(s, t, ok) == CountTxRollback(s, t, ok)

CountTxFinish(s, t, ok) ==
  IF IsDone(s, t) THEN Res(s, Nil) ELSE CountTxRollback(s, t, ok)

\* mutant: open children are reported, the tree is not rolled back
CountTxCommit_NoRollback(s, t, ok1, ok2, bad) ==
  IF IsDone(s, t)
  THEN Res(s, ErrTxDone)
  ELSE IF s.nodes[t].childCount # 0
  THEN Res(s, ErrChildrenNotDone)
  ELSE LET par == s.nodes[t].parent
           s1  == [s EXCEPT !.nodes[t].done = TRUE, !.fate[t] = "commit"]
       IN IF par # 0
          THEN Res([s1 EXCEPT !.nodes[par].childCount = @ - 1], Nil)
          ELSE LET r1 == PhysCommit(s1, s.nodes[t].root, ok1) IN
               IF r1.ret # Nil
               THEN PhysRollback(r1.s, s.nodes[t].root, ok2)
               ELSE RunHooks(r1.s, s1.nodes[t].hooks, bad)

\* mutant: the nested branch does not return, every commit reaches COMMIT
CountTxCommit_NoReturn(s, t, ok1, ok2, bad) ==
  IF IsDone(s, t)
  THEN Res(s, ErrTxDone)
  ELSE IF s.nodes[t].childCount # 0
  THEN Res(CountTxRollback(s, t, ok1).s, ErrChildrenNotDone)
  ELSE LET par == s.nodes[t].parent
           s1  == [s EXCEPT !.nodes[t].done = TRUE, !.fate[t] = "commit"]
           s2  == IF par # 0
                  THEN [s1 EXCEPT !.nodes[par].childCount = @ - 1]
                  ELSE s1
           r1  == PhysCommit(s2, s.nodes[t].root, ok1)
       IN IF r1.ret # Nil
          THEN PhysRollback(r1.s, s.nodes[t].root, ok2)
          ELSE RunHooks(r1.s, s2.nodes[t].hooks, bad)

\* mutant: the commit of the outermost node does not set its done flag
CountCommitBody_NoDone(s, t, ok1, ok2, bad) ==
  IF s.nodes[t].childCount # 0
  THEN Res(CountTxRollback(s, t, ok1).s, ErrChildrenNotDone)
  ELSE LET par == s.nodes[t].parent
           s1  == [s EXCEPT !.nodes[t].done = TRUE, !.fate[t] = "commit"]
       IN IF par # 0
          THEN Res([s1 EXCEPT !.nodes[par].childCount = @ - 1], Nil)
          ELSE LET r1 == PhysCommit(s, s.nodes[t].root, ok1) IN
               IF r1.ret # Nil
               THEN PhysRollback(r1.s, s.nodes[t].root, ok2)
               ELSE RunHooks(r1.s, s.nodes[t].hooks, bad)

\* TxCommit past its terminal test
CountCommitBody(s, t, ok1, ok2, bad) ==
  IF s.nodes[t].childCount # 0
  THEN Res(CountTxRollback(s, t, ok1).s, ErrChildrenNotDone)
  ELSE LET par == s.nodes[t].parent
           s1  == [s EXCEPT !.nodes[t].done = TRUE, !.fate[t] = "commit"]
       IN IF par # 0
          THEN Res([s1 EXCEPT !.nodes[par].childCount = @ - 1], Nil)
          ELSE LET r1 == PhysCommit(s1, s.nodes[t].root, ok1) IN
               IF r1.ret # Nil
               THEN Noted(PhysRollback(r1.s, s.nodes[t].root, ok2), t)
               ELSE Noted(RunHooks(r1.s, s1.nodes[t].hooks, bad), t)

CountTxCommit(s, t, ok1, ok2, bad) ==
  IF IsDone(s, t)
  THEN Res(s, ErrTxDone)
  ELSE CountCommitBody(s, t, ok1, ok2, bad)

\* mutant: the hook is appended to the node's own list
CountTxAddEndHook_Local(s, t) ==
  IF IsDone(s, t)
  THEN Res(s, ErrTxDone)
  ELSE Res([s EXCEPT !.nodes[t].hooks = Append(@, Len(s.hookAt) + 1),
                     !.hookAt = Append(@, t)], Nil)

CountTxAddEndHook(s, t) ==
  IF IsDone(s, t)
  THEN Res(s, ErrTxDone)
  ELSE LET h == Len(s.hookAt) + 1 IN
       Res([s EXCEPT !.nodes[s.nodes[t].root].hooks = Append(@, h),
                     !.hookAt = Append(@, t)], Nil)

\* ----------------------------------- savepoint/savepoint.go, package savepoint
\* mutant: the savepoint is named after the node's own childCount
SaveTxBegin_LocalCounter(s, t, ok) ==
  LET r  == s.nodes[t].root
      s1 == [s EXCEPT !.nodes[r].saveCount = @ + 1]
      nm == s.nodes[t].childCount + 1
      r1 == PhysSavepoint(s1, r, nm, ok)
      c  == Len(s.nodes) + 1 IN
  IF r1.ret # Nil
  THEN r1
  ELSE [s |-> [r1.s EXCEPT !.nodes =
                 Append([@ EXCEPT ![t].childCount = @ + 1],
                        NewNode(t, r, nm))],
        ret |-> Nil, child |-> c]

\* mutant: the nested begin does not count the child
SaveTxBegin_NoCount(s, t, ok) ==
  LET r  == s.nodes[t].root
      s1 == [s EXCEPT !.nodes[r].saveCount = @ + 1]
      nm == s1.nodes[r].saveCount
      r1 == PhysSavepoint(s1, r, nm, ok)
      c  == Len(s.nodes) + 1 IN
  IF r1.ret # Nil
  THEN r1
  ELSE [s |-> [r1.s EXCEPT !.nodes = Append(@, NewNode(t, r, nm))],
        ret |-> Nil, child |-> c]

SaveTxBegin(s, t, ok) ==
  LET r  == s.nodes[t].root
      s1 == [s EXCEPT !.nodes[r].saveCount = @ + 1]
      nm == s1.nodes[r].saveCount
      r1 == PhysSavepoint(s1, r, nm, ok)
      c  == Len(s.nodes) + 1 IN
  IF r1.ret # Nil
  THEN r1
  ELSE [s |-> [r1.s EXCEPT !.nodes =
                 Append([@ EXCEPT ![t].childCount = @ + 1],
                        NewNode(t, r, nm))],
        ret |-> Nil, child |-> c]

\* mutant: the rollback of the outermost node leaves its done flag alone
SaveTxRollback_NoDone(s, t, ok) ==
  IF IsDone(s, t)
  THEN Res(s, ErrTxDone)
  ELSE LET par == s.nodes[t].parent
           s1  == [s EXCEPT !.nodes[t].done = TRUE, !.fate[t] = "rollback"]
       IN IF par # 0
          THEN PhysRollbackTo([s1 EXCEPT !.nodes[par].childCount = @ - 1],
                              s.nodes[t].root, s.nodes[t].name, ok)
          ELSE PhysRollback([s EXCEPT !.fate[t] = "rollback"],
                            s.nodes[t].root, ok)

\* mutant: a nested rollback hands the node's hooks to the parent
SaveTxRollback_KeepHooks(s, t, ok) ==
  IF IsDone(s, t)
  THEN Res(s, ErrTxDone)
  ELSE LET par == s.nodes[t].parent
           s1  == [s EXCEPT !.nodes[t].done = TRUE, !.fate[t] = "rollback"]
       IN IF par # 0
          THEN PhysRollbackTo([s1 EXCEPT !.nodes[par].childCount = @ - 1,
                                         !.nodes[par].hooks =
                                            @ \o s.nodes[t].hooks],
                              s.nodes[t].root, s.nodes[t].name, ok)
          ELSE PhysRollback(s1, s.nodes[t].root, ok)

\* mutant: a nested rollback leaves the parent's childCount alone
SaveRollbackBody_NoDecrement(s, t, ok) ==
  LET par == s.nodes[t].parent
      s1  == [s EXCEPT !.nodes[t].done = TRUE, !.fate[t] = "rollback"]
  IN IF par # 0
     THEN PhysRollbackTo(s1, s.nodes[t].root, s.nodes[t].name, ok)
     ELSE PhysRollback(s1, s.nodes[t].root, ok)

\* TxRollback past its terminal test
SaveRollbackBody(s, t, ok) ==
  LET par == s.nodes[t].parent
      s1  == [s EXCEPT !.nodes[t].done = TRUE, !.fate[t] = "rollback"]
  IN IF par # 0
     THEN PhysRollbackTo([s1 EXCEPT !.nodes[par].childCount = @ - 1],
                         s.nodes[t].root, s.nodes[t].name, ok)
     ELSE PhysRollback(s1, s.nodes[t].root, ok)

SaveTxRollback(s, t, ok) ==
  IF IsDone(s, t)
  THEN Res(s, ErrTxDone)
  ELSE SaveRollbackBody(s, t, ok)

SaveTxFinish(s, t, ok) ==
  IF IsDone(s, t) THEN Res(s, Nil) ELSE SaveTxRollback(s, t, ok)

\* mutant: a nested commit runs its hooks itself after RELEASE SAVEPOINT
SaveTxCommit_HooksAtRelease(s, t, ok1, ok2, bad) ==
  IF IsDone(s, t)
  THEN Res(s, ErrTxDone)
  ELSE IF s.nodes[t].childCount # 0
  THEN Res(SaveTxRollback(s, t, ok1).s, ErrChildrenNotDone)
  ELSE LET par == s.nodes[t].parent
           s1  == [s EXCEPT !.nodes[t].done = TRUE, !.fate[t] = "commit"]
       IN IF par # 0
          THEN LET r1 == PhysRelease(
                           [s1 EXCEPT !.nodes[par].childCount = @ - 1],
                           s.nodes[t].root, s.nodes[t].name, ok1) IN
               IF r1.ret # Nil
               THEN r1
               ELSE RunHooks(r1.s, s.nodes[t].hooks, bad)
          ELSE LET r1 == PhysCommit(s1, s.nodes[t].root, ok1) IN
               IF r1.ret # Nil
               THEN PhysRollback(r1.s, s.nodes[t].root, ok2)
               ELSE RunHooks(r1.s, s1.nodes[t].hooks, bad)

\* TxCommit past its terminal test
SaveCommitBody(s, t, ok1, ok2, bad) ==
  IF s.nodes[t].childCount # 0
  THEN Res(SaveTxRollback(s, t, ok1).s, ErrChildrenNotDone)
  ELSE LET par == s.nodes[t].parent
           s1  == [s EXCEPT !.nodes[t].done = TRUE, !.fate[t] = "commit"]
       IN IF par # 0
          THEN LET r1 == PhysRelease(
                           [s1 EXCEPT !.nodes[par].childCount = @ - 1],
                           s.nodes[t].root, s.nodes[t].name, ok1) IN
               IF r1.ret # Nil
               THEN Noted(r1, t)
               ELSE Res([r1.s EXCEPT !.nodes[par].hooks =
                                        @ \o s.nodes[t].hooks], Nil)
          ELSE LET r1 == PhysCommit(s1, s.nodes[t].root, ok1) IN
               IF r1.ret # Nil
               THEN Noted(PhysRollback(r1.s, s.nodes[t].root, ok2), t)
               ELSE Noted(RunHooks(r1.s, s1.nodes[t].hooks, bad), t)

SaveTxCommit(s, t, ok1, ok2, bad) ==
  IF IsDone(s, t)
  THEN Res(s, ErrTxDone)
  ELSE SaveCommitBody(s, t, ok1, ok2, bad)

\* mutant: the hook is registered without looking at the done flags
SaveTxAddEndHook_NoCheck(s, t) ==
  Res([s EXCEPT !.nodes[t].hooks = Append(@, Len(s.hookAt) + 1),
                !.hookAt = Append(@, t)], Nil)

SaveTxAddEndHook(s, t) ==
  IF IsDone(s, t)
  THEN Res(s, ErrTxDone)
  ELSE LET h == Len(s.hookAt) + 1 IN
       Res([s EXCEPT !.nodes[t].hooks = Append(@, h),
                     !.hookAt = Append(@, t)], Nil)

\* ------------------------------------ dispatch on the dynamic type of the Tx
TxBegin(s, t, ok) ==
  IF t = RootHandle THEN DbTxBegin(s, ok)
  ELSE IF variant = Counting THEN CountTxBegin(s, t)
  ELSE SaveTxBegin(s, t, ok)

TxCommit(s, t, ok1, ok2, bad) ==
  IF variant = Counting THEN CountTxCommit(s, t, ok1, ok2, bad)
  ELSE SaveTxCommit(s, t, ok1, ok2, bad)

TxRollback(s, t, ok) ==
  IF variant = Counting THEN CountTxRollback(s, t, ok)
  ELSE SaveTxRollback(s, t, ok)

TxFinish(s, t, ok) ==
  IF variant = Counting THEN CountTxFinish(s, t, ok)
  ELSE SaveTxFinish(s, t, ok)

TxAddEndHook(s, t) ==
  IF variant = Counting THEN CountTxAddEndHook(s, t)
  ELSE SaveTxAddEndHook(s, t)

\* ------------------------------------------------------- txmanager.go, Do
\* The part of Do that follows the body: out is how f(t) ended.  The deferred
\* t.TxFinish() runs on every path, and its result is dropped.
\* mutant: TxFinish is called on the error return only, not deferred
DoReturn_NoDefer(s, t, out, ok1, ok2, ok3, bad) ==
  IF out = Nil
  THEN TxCommit(s, t, ok1, ok2, bad)
  ELSE IF out = Panic
  THEN Res(s, Panic)
  ELSE Res(TxFinish(s, t, ok3).s, ErrBody)

\* mutant: Do commits also when the body returned an error
DoReturn_CommitOnError(s, t, out, ok1, ok2, ok3, bad) ==
  IF out # Panic
  THEN LET r1 == TxCommit(s, t, ok1, ok2, bad)
           r2 == TxFinish(r1.s, t, ok3)
       IN Res(r2.s, IF out = Nil THEN r1.ret ELSE ErrBody)
  ELSE Res(TxFinish(s, t, ok3).s, Panic)

\* mutant: Do drops the result of TxCommit and returns nil
DoReturn_DropCommit(s, t, out, ok1, ok2, ok3, bad) ==
  IF out = Nil
  THEN LET r1 == TxCommit(s, t, ok1, ok2, bad)
           r2 == TxFinish(r1.s, t, ok3)
       IN Res(r2.s, Nil)
  ELSE LET r2 == TxFinish(s, t, ok3)
       IN Res(r2.s, IF out = Panic THEN Panic ELSE ErrBody)

DoReturn(s, t, out, ok1, ok2, ok3, bad) ==
  IF out = Nil
  THEN LET r1 == TxCommit(s, t, ok1, ok2, bad)
           r2 == TxFinish(r1.s, t, ok3)
       IN Res(r2.s, r1.ret)
  ELSE LET r2 == TxFinish(s, t, ok3)
       IN Res(r2.s, IF out = Panic THEN Panic ELSE ErrBody)

\* ---------------------------------------------------------------- actions
Handles == 1..Len(nodes)

NumTrees == Cardinality({n \in Handles : nodes[n].parent = 0})

Call(res) ==
  /\ nodes'     = res.s.nodes
  /\ ptx'       = res.s.ptx
  /\ persisted' = res.s.persisted
  /\ wr'        = res.s.wr
  /\ hookAt'    = res.s.hookAt
  /\ ran'       = res.s.ran
  /\ fate'      = res.s.fate
  /\ UNCHANGED <<variant, faulty>>

Threads == 1..NumThreads

Idle == [op |-> "", t |-> 0]

\* outcomes the environment may choose for a physical statement
Oks == IF faulty THEN BOOLEAN ELSE {TRUE}

\* outcomes offered to the fallback Rollback that follows a Commit with
\* outcome ok1
Oks2(ok1) == IF ~ok1 THEN Oks ELSE {TRUE}

\* hooks that may return an error when t commits with outcome ok1 (0: none)
Bads(t, ok1) ==
  IF ok1 THEN {0} \cup {nodes[t].hooks[i] : i \in 1..Len(nodes[t].hooks)}
         ELSE {0}

CanBegin(h) ==
  /\ Len(nodes) < MaxNodes
  /\ h = RootHandle => NumTrees = 0
  /\ (h # RootHandle /\ variant = Savepoint)
        => nodes[nodes[h].root].saveCount < MaxSave

Init ==
  /\ variant \in Variants
  /\ nodes = <<>>
  /\ ptx = [n \in NodeIds |-> NoPtx]
  /\ persisted = {}
  /\ wr = <<>>
  /\ hookAt = <<>>
  /\ ran = <<>>
  /\ fate = [n \in NodeIds |-> ""]
  /\ faulty \in BOOLEAN
  /\ stack = <<>>
  /\ panicking = FALSE
  /\ inside = [th \in Threads |-> Idle]
  /\ twin = St

\* the caller calls h.TxBegin()
Begin ==
  /\ ~panicking
  /\ \E h \in {RootHandle} \cup Handles, ok \in Oks :
       /\ CanBegin(h)
       /\ Call(TxBegin(St, h, ok))
  /\ UNCHANGED <<stack, panicking, inside, twin>>

\* the caller calls t.TxCommit()
Commit ==
  /\ ~panicking
  /\ \E t \in Handles, ok1 \in Oks :
     \E ok2 \in Oks2(ok1), bad \in Bads(t, ok1) :
       Call(TxCommit(St, t, ok1, ok2, bad))
  /\ UNCHANGED <<stack, panicking, inside, twin>>

\* the caller calls t.TxRollback()
Rollback ==
  /\ ~panicking
  /\ \E t \in Handles, ok \in Oks :
       Call(TxRollback(St, t, ok))
  /\ UNCHANGED <<stack, panicking, inside, twin>>

\* the caller calls t.TxFinish()
Finish ==
  /\ ~panicking
  /\ \E t \in Handles, ok \in Oks :
       Call(TxFinish(St, t, ok))
  /\ UNCHANGED <<stack, panicking, inside, twin>>

\* the caller calls t.TxAddEndHook(hook)
AddEndHook ==
  /\ ~panicking
  /\ \E t \in Handles :
       LET res == TxAddEndHook(St, t) IN
       /\ Len(res.s.hookAt) <= MaxHooks
       /\ Call(res)
  /\ UNCHANGED <<stack, panicking, inside, twin>>

\* the caller calls t.Exec("INSERT ...")
Exec ==
  /\ ~panicking
  /\ \E t \in Handles :
       LET res == PhysInsert(St, t) IN
       /\ Len(res.s.wr) <= MaxWrites
       /\ Call(res)
  /\ UNCHANGED <<stack, panicking, inside, twin>>

\* the caller calls Do(h, f): Do begins a unit and enters the body f, or
\* returns the error of TxBegin.
DoEnter ==
  /\ ~panicking
  /\ \E h \in {RootHandle} \cup Handles, ok \in Oks :
       LET res == TxBegin(St, h, ok) IN
       /\ CanBegin(h)
       /\ Call(res)
       /\ stack' = IF res.ret = Nil THEN Append(stack, res.child) ELSE stack
  /\ UNCHANGED <<panicking, inside, twin>>

\* the body of the innermost Do ends (returns nil, returns an error, or
\* panics, also because a panic reaches it from an inner Do), and Do exits.
DoExit ==
  /\ stack # <<>>
  /\ \E out \in {Nil, ErrBody, Panic}, ok1 \in Oks, ok3 \in Oks :
     \E ok2 \in Oks2(ok1), bad \in Bads(stack[Len(stack)], ok1) :
       LET t == stack[Len(stack)] IN
       /\ panicking => out = Panic
       /\ out # Nil => ok1 /\ bad = 0
       /\ Call(DoReturn(St, t, out, ok1, ok2, ok3, bad))
       /\ panicking' = (out = Panic)
  /\ stack' = SubSeq(stack, 1, Len(stack) - 1)
  /\ UNCHANGED <<inside, twin>>

\* the caller recovers from the panic that left a Do
Recover ==
  /\ panicking
  /\ panicking' = FALSE
  /\ UNCHANGED <<variant, nodes, ptx, persisted, wr, hookAt, ran, fate,
                 faulty, stack, inside, twin>>

\* Two threads on one tree.  A call is two steps: the terminal test
\* 'if t.done || t.root.done', and the rest of the function.  TxFinish is a
\* terminal test followed by a call of TxRollback, which tests again.
\* mutant: the rest of the function tests the flags once more
RaceBody_Checked(s, c, ok) ==
  IF c.op = "rollback"
  THEN TxRollback(s, c.t, ok)
  ELSE TxCommit(s, c.t, ok, ok, 0)

RaceBody(s, c, ok) ==
  IF c.op = "rollback"
  THEN IF variant = Counting THEN CountRollbackBody(s, c.t, ok)
       ELSE SaveRollbackBody(s, c.t, ok)
  ELSE IF variant = Counting THEN CountCommitBody(s, c.t, ok, ok, 0)
       ELSE SaveCommitBody(s, c.t, ok, ok, 0)

\* thread th calls t.TxRollback() or t.TxCommit() and finds t not terminal
Enter ==
  \E th \in Threads, t \in Handles, op \in {"rollback", "commit"} :
    /\ inside[th] = Idle
    /\ ~IsDone(St, t)
    /\ inside' = [inside EXCEPT ![th] = [op |-> op, t |-> t]]
    /\ UNCHANGED <<variant, nodes, ptx, persisted, wr, hookAt, ran, fate,
                   faulty, stack, panicking, twin>>

\* thread th runs the rest of its call and returns
Leave ==
  \E th \in Threads, ok \in Oks :
    /\ inside[th] # Idle
    /\ Call(RaceBody(St, inside[th], ok))
    /\ inside' = [inside EXCEPT ![th] = Idle]
    /\ UNCHANGED <<stack, panicking, twin>>

\* The same calls given to both controllers: the variables hold the state
\* of the savepoint controller, twin that of the counting controller.  rs
\* and rc are what a call does in the one and in the other.
\* a statement of res failed or was refused
Failed(res) ==
  \/ res.ret \in {ErrBegin, ErrCommit, ErrRollback, ErrExec}
  \/ \E i \in 1..Len(res.s.sql) : ~res.s.sql[i].sent

\* res leaves a node that has a parent rolled back
InnerRolledBack(res) ==
  \E n \in 1..Len(res.s.nodes) :
    res.s.nodes[n].parent # 0 /\ res.s.fate[n] = "rollback"

\* the call rolls no inner node back and none of its statements fails
Plain(rs, rc) ==
  /\ ~Failed(rs) /\ ~Failed(rc)
  /\ ~InnerRolledBack(rs) /\ ~InnerRolledBack(rc)

Pair(rs, rc) ==
  /\ Plain(rs, rc)
  /\ Call(rs)
  /\ twin' = [rc.s EXCEPT !.sql = <<>>]
  /\ UNCHANGED <<stack, panicking, inside>>

PairBegin ==
  \E h \in {RootHandle} \cup Handles :
    /\ CanBegin(h)
    /\ Pair(IF h = RootHandle THEN DbTxBegin(St, TRUE)
                              ELSE SaveTxBegin(St, h, TRUE),
            IF h = RootHandle THEN DbTxBegin(twin, TRUE)
                              ELSE CountTxBegin(twin, h))

PairCommit ==
  \E t \in Handles :
    Pair(SaveTxCommit(St, t, TRUE, TRUE, 0),
         CountTxCommit(twin, t, TRUE, TRUE, 0))

PairRollback ==
  \E t \in Handles :
    Pair(SaveTxRollback(St, t, TRUE), CountTxRollback(twin, t, TRUE))

PairFinish ==
  \E t \in Handles :
    Pair(SaveTxFinish(St, t, TRUE), CountTxFinish(twin, t, TRUE))

PairAddEndHook ==
  \E t \in Handles :
    /\ Len(hookAt) < MaxHooks
    /\ Len(twin.hookAt) < MaxHooks
    /\ Pair(SaveTxAddEndHook(St, t), CountTxAddEndHook(twin, t))

Next ==
  \/ Begin
  \/ Commit
  \/ Rollback
  \/ Finish
  \/ AddEndHook
  \/ Exec
  \/ DoEnter
  \/ DoExit
  \/ Recover

Spec == Init /\ [][Next]_vars

\* The caller uses a part of the interface only.
NextTx    == Begin \/ Commit \/ Rollback \/ Finish
NextHook  == Begin \/ Commit \/ Rollback \/ Finish \/ AddEndHook
NextWrite == Begin \/ Commit \/ Rollback \/ Finish \/ Exec
NextApi   == Begin \/ Commit \/ Rollback \/ Finish \/ AddEndHook \/ Exec
NextDo    == Begin \/ Commit \/ Rollback \/ Finish \/ DoEnter \/ DoExit
             \/ Recover

NextDoW   == Begin \/ Commit \/ Rollback \/ Finish \/ DoEnter \/ DoExit
             \/ Recover \/ Exec

InitCount == Init /\ variant = Counting
InitSave  == Init /\ variant = Savepoint
\* the savepoint variant on a database that fails no statement by itself
InitSaveOk == InitSave /\ ~faulty

SpecCount == InitCount /\ [][NextApi]_vars
SpecCountTx == InitCount /\ [][NextTx]_vars
SpecCountH == InitCount /\ [][NextHook]_vars
SpecSaveW == InitSaveOk /\ [][NextWrite]_vars
SpecSaveH == InitSave /\ [][NextHook]_vars
SpecHook  == Init /\ [][NextHook]_vars
SpecTx    == Init /\ [][NextTx]_vars
SpecDo    == Init /\ [][NextDo]_vars
SpecCountDoW == InitCount /\ [][NextDoW]_vars

\* Do with bodies that register end hooks, roll back and nest further Do
\* calls; a panic that leaves the outermost Do ends the program
NextDoH == AddEndHook \/ DoEnter \/ DoExit \/ Rollback
SpecDoH == Init /\ [][NextDoH]_vars

\* both controllers side by side on a reliable database
InitPair == Init /\ variant = Savepoint /\ ~faulty
NextPair == PairBegin \/ PairCommit \/ PairRollback \/ PairFinish
            \/ PairAddEndHook
SpecPair == InitPair /\ [][NextPair]_vars

\* two threads, no serialization
NextRace == Begin \/ Enter \/ Leave
SpecRace == Init /\ [][NextRace]_vars

TypeOK ==
  /\ variant \in Variants
  /\ Len(nodes) <= MaxNodes
  /\ faulty \in BOOLEAN
  /\ Len(stack) <= MaxNodes

\* ------------------------------------------------- vocabulary of the claims
\* What a call would do in the current state is the value of its operator
\* applied to St; the statements it hands to database/sql are in .s.sql.
Calls(res, k) == \E i \in 1..Len(res.s.sql) : res.s.sql[i].k = k

HookIds == 0..MaxHooks

\* the outcomes that a TxCommit can look at: the outcome ok2 of the ROLLBACK
\* is read only after a failed COMMIT (ok1 false), the failing hook bad only
\* after a successful one
Ok2s(ok1) == IF ok1 THEN {TRUE} ELSE BOOLEAN
BadIds(ok1) == IF ok1 THEN HookIds ELSE {0}

RolledBack(n) == fate[n] = "rollback"

Inner(t) == nodes[t].parent # 0

SameTree(t, u) == nodes[t].root = nodes[u].root

\* ------------------------------------------------------------------ C1
C1_AtMostOnce == \A r \in Handles : ptx[r].nCommit <= 1

C1_OnlyOutermost ==
  \A t \in Handles, ok1 \in BOOLEAN, ok2 \in BOOLEAN, bad \in HookIds :
    /\ Calls(CountTxCommit(St, t, ok1, ok2, bad), "COMMIT")
         => /\ ~Inner(t)
            /\ nodes[t].childCount = 0
            /\ ~IsDone(St, t)
    /\ ~Calls(CountTxRollback(St, t, ok1), "COMMIT")
    /\ ~Calls(CountTxFinish(St, t, ok1), "COMMIT")
    /\ ~Calls(CountTxBegin(St, t), "COMMIT")

C1_InnerLiteral ==
  \A t \in Handles, ok1 \in BOOLEAN, ok2 \in BOOLEAN, bad \in HookIds :
    Inner(t) => CountTxCommit(St, t, ok1, ok2, bad).s.sql = <<>>

C1_InnerEffective ==
  \A t \in Handles, ok1 \in BOOLEAN, ok2 \in BOOLEAN, bad \in HookIds :
    LET res == CountTxCommit(St, t, ok1, ok2, bad) IN
    Inner(t) =>
      /\ ~Calls(res, "COMMIT")
      /\ (~IsDone(St, t) /\ nodes[t].childCount = 0) =>
            /\ res.ret = Nil
            /\ res.s = [St EXCEPT
                          !.nodes[t].done = TRUE,
                          !.nodes[nodes[t].parent].childCount = @ - 1,
                          !.fate[t] = "commit"]

\* C1 as stated: counting variant, the physical COMMIT is issued at most once
\* per tree and only by TxCommit on the outermost node while its childCount
\* is 0 and neither it nor the tree is terminal; TxCommit on a node that has
\* a parent never issues physical SQL.
C1_Original == C1_AtMostOnce /\ C1_OnlyOutermost /\ C1_InnerLiteral

\* C1 (amended): counting variant, the physical COMMIT is issued at most once
\* per tree and only by TxCommit on the outermost node while its childCount
\* is 0 and neither it nor the tree is terminal; TxCommit on a node that has
\* a parent never issues a physical COMMIT, and when it takes effect (node
\* and tree not terminal, childCount 0) it issues no physical SQL at all,
\* returns nil and only marks the node terminal and decrements the parent's
\* childCount by one.
C1_Theorem == C1_AtMostOnce /\ C1_OnlyOutermost /\ C1_InnerEffective

\* an inner node committed logically, then the outermost commit issued the
\* one physical COMMIT
C1_Witness ==
  \E t \in Handles :
    /\ variant = Counting
    /\ Inner(t)
    /\ fate[t] = "commit"
    /\ fate[nodes[t].root] = "commit"
    /\ ptx[nodes[t].root].state = "committed"
    /\ ptx[nodes[t].root].nCommit = 1

\* ------------------------------------------------------------------ C2
\* C2: counting variant, a TxRollback that takes effect on a node at any
\* depth marks the node and the root-of-nesting terminal and issues the
\* physical ROLLBACK; afterwards every TxCommit and TxRollback on any node of
\* the tree returns sql.ErrTxDone and issues no physical SQL.
C2_Theorem ==
  /\ \A t \in Handles, ok \in BOOLEAN :
       LET res == CountTxRollback(St, t, ok) IN
       ~IsDone(St, t) =>
         /\ res.s.nodes[t].done
         /\ res.s.nodes[nodes[t].root].done
         /\ res.s.sql = <<Stmt("ROLLBACK", 0, nodes[t].root, TRUE)>>
  /\ \A t \in Handles, u \in Handles, ok1 \in BOOLEAN, ok2 \in BOOLEAN,
        bad \in HookIds :
       (RolledBack(t) /\ SameTree(t, u)) =>
         /\ CountTxCommit(St, u, ok1, ok2, bad).ret = ErrTxDone
         /\ CountTxCommit(St, u, ok1, ok2, bad).s = St
         /\ CountTxRollback(St, u, ok1).ret = ErrTxDone
         /\ CountTxRollback(St, u, ok1).s = St

\* an inner node was rolled back while its parent and a sibling had not
\* finished themselves; their calls now find the tree terminal
C2_Witness ==
  \E t \in Handles, u \in Handles :
    /\ variant = Counting
    /\ Inner(t) /\ Inner(u) /\ t # u
    /\ nodes[t].parent = nodes[u].parent
    /\ fate[t] = "rollback"
    /\ fate[u] = "" /\ ~nodes[u].done
    /\ fate[nodes[t].root] = ""
    /\ ptx[nodes[t].root].nRollback = 1
    /\ CountTxCommit(St, u, TRUE, TRUE, 0).ret = ErrTxDone

\* ------------------------------------------------------------------ C3
\* C3: savepoint variant, TxRollback (or a TxFinish that rolls back) on a
\* non-terminal inner node issues ROLLBACK TO SAVEPOINT with the node's own
\* name, marks the node terminal and leaves the root-of-nesting non-terminal;
\* after the outermost commit the writes of the rolled-back inner unit are
\* not persisted.  Stated for a database none of whose statements fails for
\* a reason of its own.
C3_Claim ==
  /\ \A t \in Handles :
       (Inner(t) /\ ~IsDone(St, t)) =>
          /\ SaveTxRollback(St, t, TRUE).s.sql =
               <<Stmt("ROLLBACK TO", nodes[t].name, nodes[t].root, TRUE)>>
          /\ SaveTxRollback(St, t, TRUE).s.nodes[t].done
          /\ ~SaveTxRollback(St, t, TRUE).s.nodes[nodes[t].root].done
          /\ SaveTxFinish(St, t, TRUE) = SaveTxRollback(St, t, TRUE)
  /\ \A w \in 1..Len(wr) :
       ( /\ ~faulty
         /\ wr[w].live
         /\ Inner(wr[w].by)
         /\ RolledBack(wr[w].by)
         /\ ptx[nodes[wr[w].by].root].state = "committed" )
       => w \notin persisted

\* ------------------------------------------------------------------ C4
Committed(r) == ptx[r].state = "committed"

\* C4: in both variants no end hook executes before the physical COMMIT of
\* its tree has succeeded: hooks run only inside the outermost node's
\* TxCommit, after the physical COMMIT returned success; if the transaction
\* was rolled back or the COMMIT failed, no hook of the tree is executed.
C4_Theorem ==
  /\ \A i \in 1..Len(ran) : Committed(nodes[hookAt[ran[i]]].root)
  /\ \A h \in 1..Len(hookAt) :
       ptx[nodes[hookAt[h]].root].state \in {"rolledback", "failed"}
         => \A i \in 1..Len(ran) : ran[i] # h
  /\ \A t \in Handles, ok1 \in BOOLEAN :
     \A ok2 \in Ok2s(ok1), bad \in BadIds(ok1) :
       TxCommit(St, t, ok1, ok2, bad).s.ran # ran
         => /\ ~Inner(t)
            /\ TxCommit(St, t, ok1, ok2, bad).s.sql =
                 <<Stmt("COMMIT", 0, nodes[t].root, TRUE)>>
            /\ TxCommit(St, t, ok1, ok2, bad).s.ptx[nodes[t].root].state
                 = "committed"
  /\ \A t \in Handles, ok \in BOOLEAN :
       /\ TxRollback(St, t, ok).s.ran = ran
       /\ TxFinish(St, t, ok).s.ran = ran
       /\ TxAddEndHook(St, t).s.ran = ran
       /\ TxBegin(St, t, ok).s.ran = ran

\* the outermost commit succeeded and ran two hooks, one of them registered
\* on an inner node
C4_Witness ==
  /\ Len(ran) = 2
  /\ \E i \in 1..2 : Inner(hookAt[ran[i]])
  /\ Committed(1)
  /\ fate[1] = "commit"

\* ------------------------------------------------------------------ C5
\* the hooks registered so far, in the order of their registration
Registered == [h \in 1..Len(hookAt) |-> h]

IsPrefix(p, q) == Len(p) <= Len(q) /\ p = SubSeq(q, 1, Len(p))

C5_AllOnRoot ==
  \A t \in Handles :
    nodes[t].hooks = IF Inner(t) THEN <<>> ELSE Registered

C5_NeverAfterRollback ==
  /\ (\E t \in Handles : RolledBack(t)) => ran = <<>>
  /\ ran # <<>> => Committed(1)

\* C5 as stated: counting variant, the hooks registered at any depth are all
\* on the root-of-nesting's list and execute exactly once each, in the order
\* of registration, if and only if the outermost commit physically succeeds;
\* they never execute if any level rolled back.
C5_Original ==
  /\ C5_AllOnRoot
  /\ C5_NeverAfterRollback
  /\ (nodes # <<>> /\ Committed(1)) => ran = Registered

\* C5 (amended): counting variant, the hooks registered at any depth are all
\* on the root-of-nesting's list; they execute at most once each, in the
\* order of registration and only after the outermost commit physically
\* succeeded; the successful outermost commit executes all of them when none
\* returns an error, and stops after the first hook that returns an error;
\* they never execute if any level rolled back.
C5_Theorem ==
  /\ C5_AllOnRoot
  /\ C5_NeverAfterRollback
  /\ IsPrefix(ran, Registered)
  /\ \A t \in Handles, bad \in HookIds :
       LET res == CountTxCommit(St, t, TRUE, TRUE, bad) IN
       (~Inner(t) /\ ~IsDone(St, t) /\ nodes[t].childCount = 0) =>
          IF bad \in 1..Len(hookAt)
          THEN res.ret = ErrHook /\ res.s.ran = SubSeq(Registered, 1, bad)
          ELSE res.ret = Nil /\ res.s.ran = Registered

\* two hooks, the first registered on an inner node and the second on the
\* outermost node, both executed in that order by the outermost commit
C5_Witness ==
  /\ variant = Counting
  /\ Len(hookAt) = 2
  /\ Inner(hookAt[1]) /\ ~Inner(hookAt[2])
  /\ Committed(1)
  /\ ran = <<1, 2>>

\* ------------------------------------------------------------------ C6
\* C6: savepoint variant, the end hooks that run at the outermost commit run
\* exactly once each and in the order in which they were registered,
\* whatever the depth they were registered at and however registrations on a
\* parent interleave with registrations and commits of its children.
C6_Claim ==
  \A i \in 1..Len(ran), j \in 1..Len(ran) : i < j => ran[i] < ran[j]

\* ------------------------------------------------------------------ C7
Outs == {Nil, ErrBody, Panic}

\* the node of the innermost Do in progress
Top == stack[Len(stack)]

\* C7: Do never leaves a transaction open: however the body exits (nil,
\* error, panic), the node Do began is terminal when Do exits; when Do was
\* called on the Root handle its outermost node is terminal and the physical
\* transaction has been ended by a COMMIT or a ROLLBACK; a panic of the body
\* leaves Do as a panic, after the rollback.
C7_Theorem ==
  stack # <<>> =>
    \A out \in Outs, ok1 \in BOOLEAN, ok3 \in BOOLEAN :
    \A ok2 \in Ok2s(ok1), bad \in BadIds(ok1) :
      LET res == DoReturn(St, Top, out, ok1, ok2, ok3, bad)
          r   == nodes[Top].root IN
      /\ IsDone(res.s, Top)
      /\ ~Inner(Top) =>
           /\ res.s.nodes[Top].done
           /\ res.s.ptx[r].state # "open"
           /\ res.s.ptx[r].nCommit + res.s.ptx[r].nRollback >= 1
      /\ out = Panic =>
           /\ res.ret = Panic
           /\ ~Calls(res, "COMMIT")
           /\ ~IsDone(St, Top) =>
                IF Inner(Top) /\ variant = Savepoint
                THEN Calls(res, "ROLLBACK TO")
                ELSE /\ Calls(res, "ROLLBACK")
                     /\ res.s.ptx[r].state = "rolledback"

\* the body of a Do called on the Root handle panicked: Do has exited, the
\* panic is propagating, the node is terminal and the transaction rolled back
C7_Witness ==
  /\ panicking
  /\ stack = <<>>
  /\ Len(nodes) = 1
  /\ nodes[1].done
  /\ fate[1] = "rollback"
  /\ ptx[1].state = "rolledback"
  /\ ptx[1].nRollback = 1

\* ------------------------------------------------------------------ C8
\* C8: whenever Do returns a non-nil error that comes from the body or from
\* TxCommit, the unit of work Do began has been rolled back by the time Do
\* returns: a physical ROLLBACK was issued when the unit is an outermost node
\* or any node of the counting variant, and ROLLBACK TO SAVEPOINT of the
\* node's name was issued when the unit is an inner node of the savepoint
\* variant (also when RELEASE SAVEPOINT failed).  Stated for a body that left
\* the node to Do (the node is not terminal when the body ends).
C8_Claim ==
  stack # <<>> =>
    \A out \in {Nil, ErrBody}, ok1 \in Oks, ok2 \in Oks, ok3 \in Oks :
      LET res == DoReturn(St, Top, out, ok1, ok2, ok3, 0)
          r   == nodes[Top].root IN
      (~IsDone(St, Top) /\ res.ret # Nil) =>
         IF Inner(Top) /\ variant = Savepoint
         THEN \E i \in 1..Len(res.s.sql) :
                /\ res.s.sql[i].k = "ROLLBACK TO"
                /\ res.s.sql[i].name = nodes[Top].name
         ELSE Calls(res, "ROLLBACK")

\* ------------------------------------------------------------------ C9
\* C9: TxFinish is idempotent in both variants: on a node after a prior
\* TxCommit or TxRollback of that node, or after the tree became terminal, it
\* returns nil, changes no state and issues no physical SQL; a deferred
\* TxFinish after a successful TxCommit does not undo the commit.
C9_Theorem ==
  /\ \A t \in Handles : fate[t] # "" => nodes[t].done
  /\ \A t \in Handles, ok \in BOOLEAN :
       IsDone(St, t) => TxFinish(St, t, ok) = Res(St, Nil)
  /\ \A t \in Handles, ok1 \in BOOLEAN, ok3 \in BOOLEAN :
     \A ok2 \in Ok2s(ok1), bad \in BadIds(ok1) :
       TxFinish(TxCommit(St, t, ok1, ok2, bad).s, t, ok3)
         = Res(TxCommit(St, t, ok1, ok2, bad).s, Nil)
  /\ \A t \in Handles, ok1 \in BOOLEAN, ok3 \in BOOLEAN :
       /\ TxFinish(TxRollback(St, t, ok1).s, t, ok3)
            = Res(TxRollback(St, t, ok1).s, Nil)
       /\ TxFinish(TxFinish(St, t, ok1).s, t, ok3)
            = Res(TxFinish(St, t, ok1).s, Nil)

\* a Do called on the Root handle returned after its TxCommit had committed
\* the transaction: the deferred TxFinish left it committed
C9_Witness ==
  /\ stack = <<>>
  /\ ~panicking
  /\ Len(nodes) = 1
  /\ fate[1] = "commit"
  /\ Committed(1)
  /\ ptx[1].nRollback = 0
  /\ TxFinish(St, 1, TRUE) = Res(St, Nil)

\* ------------------------------------------------------------------ C10
\* C10: counting variant, TxCommit on a non-terminal node whose childCount
\* is not 0 returns ErrChildrenNotDone and rolls back the entire tree: the
\* node and the root-of-nesting become terminal, exactly one physical
\* ROLLBACK is issued and no physical COMMIT is issued for the tree
\* afterwards.
C10_Theorem ==
  /\ \A t \in Handles, ok1 \in BOOLEAN, ok2 \in BOOLEAN, bad \in HookIds :
       LET res == CountTxCommit(St, t, ok1, ok2, bad)
           r   == nodes[t].root IN
       (~IsDone(St, t) /\ nodes[t].childCount # 0) =>
          /\ res.ret = ErrChildrenNotDone
          /\ res.s.nodes[t].done
          /\ res.s.nodes[r].done
          /\ res.s.sql = <<Stmt("ROLLBACK", 0, r, TRUE)>>
          /\ res.s.ptx[r].nRollback = 1
          /\ res.s.ptx[r].nCommit = 0
  /\ \A t \in Handles, ok1 \in BOOLEAN, ok2 \in BOOLEAN, bad \in HookIds :
       RolledBack(t) =>
          /\ ptx[nodes[t].root].nCommit = 0
          /\ ptx[nodes[t].root].nRollback = 1
          /\ \A u \in Handles :
               /\ CountTxCommit(St, u, ok1, ok2, bad).s.sql = <<>>
               /\ CountTxRollback(St, u, ok1).s.sql = <<>>
               /\ CountTxFinish(St, u, ok1).s.sql = <<>>

\* a node was rolled back while it had an open child, no COMMIT was issued
C10_Witness ==
  \E t \in Handles, u \in Handles :
    /\ variant = Counting
    /\ nodes[u].parent = t
    /\ ~nodes[u].done
    /\ nodes[t].childCount = 1
    /\ RolledBack(t)
    /\ CountTxCommit(St, u, TRUE, TRUE, 0).ret = ErrTxDone
    /\ ptx[nodes[t].root].nRollback = 1
    /\ ptx[nodes[t].root].nCommit = 0

\* ------------------------------------------------------------------ C11
\* C11: savepoint variant, TxCommit on a non-terminal node whose childCount
\* is not 0 returns ErrChildrenNotDone and triggers a full rollback of the
\* transaction, also when the node is an inner node: the whole tree becomes
\* terminal and the physical ROLLBACK is issued.
C11_Claim ==
  \A t \in Handles :
    LET res == SaveTxCommit(St, t, TRUE, TRUE, 0)
        r   == nodes[t].root IN
    (variant = Savepoint /\ ~IsDone(St, t) /\ nodes[t].childCount # 0) =>
       /\ res.ret = ErrChildrenNotDone
       /\ res.s.nodes[t].done
       /\ res.s.nodes[r].done
       /\ Calls(res, "ROLLBACK")
       /\ res.s.ptx[r].state = "rolledback"

\* ------------------------------------------------------------------ C12
\* C12: in both variants, when the physical COMMIT issued by TxCommit of the
\* outermost node fails, a physical ROLLBACK is attempted, no end hook runs,
\* the node stays terminal, and TxCommit returns the original COMMIT error
\* whatever the outcome of that ROLLBACK.
C12_Claim ==
  \A t \in Handles, ok2 \in BOOLEAN :
    LET res == TxCommit(St, t, FALSE, ok2, 0) IN
    (faulty /\ ~Inner(t) /\ ~IsDone(St, t) /\ nodes[t].childCount = 0) =>
       /\ Calls(res, "COMMIT")
       /\ Calls(res, "ROLLBACK")
       /\ res.s.ran = ran
       /\ res.s.nodes[t].done
       /\ res.ret = ErrCommit

\* ------------------------------------------------------------------ C13
\* position of hook h in a hook list (0: not in the list)
HookPos(hooks, h) ==
  IF \E i \in 1..Len(hooks) : hooks[i] = h
  THEN CHOOSE i \in 1..Len(hooks) : hooks[i] = h
  ELSE 0

DoneKept(s, s2) ==
  \A n \in 1..Len(s.nodes) : s.nodes[n].done => s2.nodes[n].done

\* C14: terminal is absorbing in both variants: a done flag, once set, is
\* never cleared by any call, so at most one TxCommit or TxRollback per node
\* takes effect; every TxCommit, TxRollback or TxAddEndHook on a terminal
\* node, or on a node whose root-of-nesting is terminal, returns
\* sql.ErrTxDone and leaves childCount values, done flags, hook lists and
\* the physical transaction unchanged.
C14_Theorem ==
  /\ \A t \in Handles, ok1 \in BOOLEAN :
       /\ \A ok2 \in Ok2s(ok1), bad \in BadIds(ok1) :
            /\ DoneKept(St, TxCommit(St, t, ok1, ok2, bad).s)
            /\ IsDone(TxCommit(St, t, ok1, ok2, bad).s, t)
            /\ IsDone(St, t) =>
                 TxCommit(St, t, ok1, ok2, bad) = Res(St, ErrTxDone)
       /\ DoneKept(St, TxRollback(St, t, ok1).s)
       /\ IsDone(TxRollback(St, t, ok1).s, t)
       /\ DoneKept(St, TxFinish(St, t, ok1).s)
       /\ DoneKept(St, TxBegin(St, t, ok1).s)
       /\ DoneKept(St, TxAddEndHook(St, t).s)
       /\ IsDone(St, t) =>
            /\ TxRollback(St, t, ok1) = Res(St, ErrTxDone)
            /\ TxAddEndHook(St, t) = Res(St, ErrTxDone)
  /\ \A ok \in BOOLEAN : DoneKept(St, TxBegin(St, RootHandle, ok).s)
  /\ \A t \in Handles : fate[t] # "" => nodes[t].done

\* an inner node has committed and its tree is still open: the node's own
\* done flag makes its later calls return sql.ErrTxDone
C14_Witness ==
  \E t \in Handles :
    /\ Inner(t)
    /\ fate[t] = "commit"
    /\ nodes[t].done
    /\ ~nodes[nodes[t].root].done
    /\ ptx[nodes[t].root].state = "open"
    /\ TxCommit(St, t, TRUE, TRUE, 0) = Res(St, ErrTxDone)
    /\ TxAddEndHook(St, t) = Res(St, ErrTxDone)

\* ------------------------------------------------------------------ C15
\* C15: counting variant, the logical commit of an inner unit makes nothing
\* durable by itself: when an inner unit has committed (an inner Do returned
\* nil) and the body of the enclosing outermost Do then returns an error,
\* the physical transaction receives ROLLBACK and never COMMIT, and the
\* writes of the outer and of the inner unit are absent afterwards.
C15_Theorem ==
  /\ \A r \in Handles : (~Inner(r) /\ ptx[r].nCommit = 0) => persisted = {}
  /\ \A t \in Handles :
       (Inner(t) /\ fate[t] = "commit" /\ ptx[nodes[t].root].nCommit = 0) =>
          /\ persisted = {}
          /\ RolledBack(nodes[t].root) =>
               /\ ptx[nodes[t].root].state = "rolledback"
               /\ ptx[nodes[t].root].frames = <<>>
               /\ \A u \in Handles, ok1 \in BOOLEAN :
                  \A ok2 \in Ok2s(ok1), bad \in BadIds(ok1) :
                    ~Calls(CountTxCommit(St, u, ok1, ok2, bad), "COMMIT")
  /\ (Len(stack) = 1 /\ ~Inner(Top) /\ ~IsDone(St, Top)) =>
       \A ok1 \in BOOLEAN, ok3 \in BOOLEAN :
         LET res == DoReturn(St, Top, ErrBody, ok1, TRUE, ok3, 0) IN
         /\ res.ret = ErrBody
         /\ res.s.sql = <<Stmt("ROLLBACK", 0, Top, TRUE)>>
         /\ res.s.ptx[Top].nCommit = 0
         /\ res.s.ptx[Top].nRollback = 1
         /\ res.s.ptx[Top].frames = <<>>
         /\ res.s.persisted = {}

\* the inner unit made a write and committed, then the outermost Do ended
\* with a rollback: nothing is durable
C15_Witness ==
  \E t \in Handles :
    /\ variant = Counting
    /\ stack = <<>>
    /\ ~panicking
    /\ Inner(t)
    /\ fate[t] = "commit"
    /\ wr = <<[by |-> t, live |-> TRUE]>>
    /\ RolledBack(nodes[t].root)
    /\ ptx[nodes[t].root].nCommit = 0
    /\ ptx[nodes[t].root].nRollback = 1
    /\ persisted = {}

\* ------------------------------------------------------------------ C16
\* a hook registered on a node that was rolled back is never executed
C16_RolledBackNeverRun ==
  \A h \in 1..Len(hookAt) :
    RolledBack(hookAt[h]) => \A i \in 1..Len(ran) : ran[i] # h

\* a nested commit that succeeds puts the node's hooks at the end of the
\* parent's list, and a later registration on the parent comes after them
C16_Transfer ==
  \A t \in Handles :
    /\ (Inner(t) /\ ~IsDone(St, t) /\ nodes[t].childCount = 0) =>
         LET res == SaveTxCommit(St, t, TRUE, TRUE, 0)
             par == nodes[t].parent IN
         res.ret = Nil =>
           /\ res.s.nodes[par].hooks = nodes[par].hooks \o nodes[t].hooks
           /\ ~IsDone(res.s, par) =>
                SaveTxAddEndHook(res.s, par).s.nodes[par].hooks =
                  Append(res.s.nodes[par].hooks, Len(hookAt) + 1)
    /\ \A ok \in BOOLEAN :
         SaveTxRollback(St, t, ok).s.nodes[nodes[t].root].hooks
           = nodes[nodes[t].root].hooks

\* the outermost commit that succeeds physically executes every hook of the
\* outermost node's list, in the order of the list
C16_RunAll ==
  \A t \in Handles, bad \in HookIds :
    (~Inner(t) /\ ~IsDone(St, t) /\ nodes[t].childCount = 0) =>
       SaveTxCommit(St, t, TRUE, TRUE, bad).s.ran = ran \o nodes[t].hooks

\* ... up to and including the first hook that returns an error
C16_RunPrefix ==
  \A t \in Handles, bad \in HookIds :
    LET i == HookPos(nodes[t].hooks, bad) IN
    (~Inner(t) /\ ~IsDone(St, t) /\ nodes[t].childCount = 0) =>
       SaveTxCommit(St, t, TRUE, TRUE, bad).s.ran =
         ran \o (IF i = 0 THEN nodes[t].hooks
                          ELSE SubSeq(nodes[t].hooks, 1, i))

\* C16 as stated: savepoint variant, a hook registered on an inner node that
\* is then rolled back is never executed, while the hooks of sibling inner
\* nodes that committed and of the parent are executed when the outermost
\* commit physically succeeds, the committed child's hooks no later than the
\* hooks the parent registers after that child committed.
C16_Original ==
  variant = Savepoint =>
    C16_RolledBackNeverRun /\ C16_Transfer /\ C16_RunAll

\* C16 (amended): savepoint variant, a hook registered on an inner node that
\* is then rolled back is never executed, while the hooks of sibling inner
\* nodes that committed and of the parent are on the outermost node's list,
\* the committed child's hooks before the hooks the parent registers after
\* that child committed; when the outermost commit physically succeeds the
\* hooks of that list are executed in order, up to and including the first
\* hook that returns an error.
C16_Theorem ==
  variant = Savepoint =>
    C16_RolledBackNeverRun /\ C16_Transfer /\ C16_RunPrefix

\* one inner node registered a hook and committed, its sibling registered a
\* hook and was rolled back; the outermost commit ran the first hook only
C16_Witness ==
  \E a \in Handles, b \in Handles :
    /\ variant = Savepoint
    /\ Inner(a) /\ Inner(b) /\ a # b
    /\ nodes[a].parent = 1 /\ nodes[b].parent = 1
    /\ fate[a] = "commit" /\ RolledBack(b)
    /\ \E h \in 1..Len(hookAt), g \in 1..Len(hookAt) :
         /\ hookAt[h] = a /\ hookAt[g] = b
         /\ ran = <<h>>
    /\ fate[1] = "commit"
    /\ Committed(1)

\* ------------------------------------------------------------------ C17
\* TxBegin on the Root handle: one physical BEGIN, and a node that is its own
\* root-of-nesting, or the error of BEGIN and no node
C17_RootBegin ==
  \A ok \in BOOLEAN :
    LET res == TxBegin(St, RootHandle, ok)
        c   == Len(nodes) + 1 IN
    Len(nodes) < MaxNodes =>
      /\ res.s.sql = <<Stmt("BEGIN", 0, c, TRUE)>>
      /\ ok =>
           /\ res.ret = Nil
           /\ res.child = c
           /\ res.s.nodes = Append(nodes,
                [parent |-> 0, root |-> c, childCount |-> 0, saveCount |-> 0,
                 done |-> FALSE, name |-> 0, hooks |-> <<>>])
           /\ res.s.ptx[c].state = "open"
           /\ res.s.ptx[c].nBegin = 1
      /\ ~ok =>
           /\ res.ret = ErrBegin
           /\ res.child = 0
           /\ res.s.nodes = nodes
           /\ res.s.ptx = ptx

\* counting variant, TxBegin on a node: no physical SQL, the childCount of
\* that node alone grows by one, the child has the node's root-of-nesting
C17_NodeBegin ==
  \A t \in Handles :
    LET res == CountTxBegin(St, t)
        c   == Len(nodes) + 1 IN
    (variant = Counting /\ Len(nodes) < MaxNodes) =>
      /\ res.ret = Nil
      /\ res.child = c
      /\ res.s.sql = <<>>
      /\ res.s.ptx = ptx
      /\ res.s.nodes = Append(
           [nodes EXCEPT ![t].childCount = nodes[t].childCount + 1],
           [parent |-> t, root |-> nodes[t].root, childCount |-> 0,
            saveCount |-> 0, done |-> FALSE, name |-> 0, hooks |-> <<>>])

\* every node of a tree shares the physical transaction of the outermost
\* node, which was begun exactly once
C17_OneTx ==
  \A t \in Handles :
    /\ nodes[nodes[t].root].parent = 0
    /\ nodes[nodes[t].root].root = nodes[t].root
    /\ Inner(t) => /\ nodes[nodes[t].parent].root = nodes[t].root
                   /\ ptx[t] = NoPtx
    /\ ~Inner(t) => nodes[t].root = t
    /\ ptx[nodes[t].root].nBegin = 1

\* C17: TxBegin on the Root handle issues exactly one physical BEGIN and
\* returns a node that is its own root-of-nesting with childCount 0 and no
\* parent (or returns the BEGIN error and creates no node); in the counting
\* variant TxBegin on a node issues no physical SQL, increments only that
\* node's childCount by one and returns a child with the same physical
\* transaction and root-of-nesting, so a tree sees exactly one BEGIN.
C17_Theorem == C17_RootBegin /\ C17_NodeBegin /\ C17_OneTx

\* counting variant, three levels of nesting on one physical transaction
C17_Witness ==
  /\ variant = Counting
  /\ Len(nodes) = 3
  /\ nodes[2].parent = 1 /\ nodes[3].parent = 2
  /\ nodes[1].childCount = 1 /\ nodes[2].childCount = 1
  /\ nodes[3].root = 1
  /\ ptx[1].nBegin = 1
  /\ ptx[1].state = "open"

\* ------------------------------------------------------------------ C18
\* the nodes that TxBegin on t returned
Children(t) == {u \in Handles : nodes[u].parent = t}

\* C18: in both variants, in every reachable state a node's childCount is 0
\* only if every node it directly spawned is terminal, and the physical
\* COMMIT is never issued by a node that has a directly spawned child that
\* is not yet terminal.
C18_Theorem ==
  /\ \A t \in Handles :
       /\ nodes[t].childCount >= 0
       /\ nodes[t].childCount = 0 => \A u \in Children(t) : IsDone(St, u)
  /\ \A t \in Handles, ok1 \in BOOLEAN :
     \A ok2 \in Ok2s(ok1), bad \in BadIds(ok1) :
       Calls(TxCommit(St, t, ok1, ok2, bad), "COMMIT")
         => \A u \in Children(t) : IsDone(St, u)

\* the outermost node spawned two children, one committed and one was rolled
\* back to its savepoint; its childCount is 0 again and it has committed
C18_Witness ==
  \E a \in Handles, b \in Handles :
    /\ variant = Savepoint
    /\ Children(1) = {a, b} /\ a # b
    /\ fate[a] = "commit" /\ RolledBack(b)
    /\ nodes[1].childCount = 0
    /\ fate[1] = "commit"
    /\ ptx[1].nCommit = 1

\* ------------------------------------------------------------------ C19
\* C19: a terminal node is permanently inert in both variants: once a node
\* has committed or rolled back, or its tree is terminal, no operation
\* invoked on it, TxBegin included, changes any counter, creates a usable
\* child, or issues any physical statement (in the savepoint variant no
\* SAVEPOINT is sent on behalf of a terminal node or a finished tree).
C19_Claim ==
  \A t \in Handles, ok \in Oks :
    IsDone(St, t) =>
      /\ TxCommit(St, t, ok, TRUE, 0).s = St
      /\ TxRollback(St, t, ok).s = St
      /\ TxFinish(St, t, ok).s = St
      /\ TxAddEndHook(St, t).s = St
      /\ Len(nodes) < MaxNodes =>
           LET res == TxBegin(St, t, ok) IN
           /\ res.s.nodes = nodes
           /\ res.child = 0
           /\ \A i \in 1..Len(res.s.sql) : ~res.s.sql[i].sent

\* ------------------------------------------------------------------ C20
SavepointStmts == {"SAVEPOINT", "RELEASE", "ROLLBACK TO"}

\* the statements of res that are about savepoints all name savepoint nm
OnlyNames(res, nm) ==
  \A i \in 1..Len(res.s.sql) :
    res.s.sql[i].k \in SavepointStmts => res.s.sql[i].name = nm

\* C20: savepoint variant, within one nesting tree every nested TxBegin
\* issues SAVEPOINT with a name built from a strictly increasing counter kept
\* on the root-of-nesting, so no two nodes of the tree ever carry the same
\* savepoint name, whatever the interleaving of begins, commits, rollbacks
\* and failed SAVEPOINT statements; the outermost node's name is empty and
\* it never issues a SAVEPOINT, RELEASE or ROLLBACK TO statement for itself.
C20_Theorem ==
  variant = Savepoint =>
    /\ \A t \in Handles, u \in Handles :
         (SameTree(t, u) /\ t # u) => nodes[t].name # nodes[u].name
    /\ \A t \in Handles :
         IF Inner(t)
         THEN nodes[t].name \in 1..nodes[nodes[t].root].saveCount
         ELSE nodes[t].name = 0
    /\ \A t \in Handles, ok \in BOOLEAN :
         LET res == SaveTxBegin(St, t, ok)
             r   == nodes[t].root
             nm  == nodes[r].saveCount + 1 IN
         Len(nodes) < MaxNodes =>
           /\ res.s.sql = <<Stmt("SAVEPOINT", nm, r, ptx[r].state = "open")>>
           /\ res.s.nodes[r].saveCount = nm
           /\ res.ret = Nil =>
                /\ res.s.nodes[res.child].name = nm
                /\ \A u \in Handles : nodes[u].name < nm
    /\ \A t \in Handles, ok1 \in BOOLEAN :
         /\ \A ok2 \in Ok2s(ok1), bad \in BadIds(ok1) :
              OnlyNames(SaveTxCommit(St, t, ok1, ok2, bad), nodes[t].name)
         /\ OnlyNames(SaveTxRollback(St, t, ok1), nodes[t].name)
         /\ OnlyNames(SaveTxFinish(St, t, ok1), nodes[t].name)
         /\ ~Inner(t) =>
              /\ \A ok2 \in Ok2s(ok1), bad \in BadIds(ok1) :
                   \A k \in SavepointStmts :
                     ~Calls(SaveTxCommit(St, t, ok1, ok2, bad), k)
              /\ \A k \in SavepointStmts :
                   /\ ~Calls(SaveTxRollback(St, t, ok1), k)
                   /\ ~Calls(SaveTxFinish(St, t, ok1), k)

\* a SAVEPOINT statement failed, the next nested begin took the next name
C20_Witness ==
  /\ variant = Savepoint
  /\ Len(nodes) = 2
  /\ nodes[1].name = 0
  /\ nodes[1].saveCount = 2
  /\ nodes[2].name = 2
  /\ ptx[1].state = "open"
  /\ Len(ptx[1].frames) = 2

\* ------------------------------------------------------------------ C21
RECURSIVE Chain(_)
\* the node t and its ancestors, up to the outermost node
Chain(t) == IF t = 0 THEN {} ELSE {t} \cup Chain(nodes[t].parent)

\* the hooks of a list, as a set
HookSet(hooks) == {hooks[i] : i \in 1..Len(hooks)}

\* a successful TxCommit of an inner node issues RELEASE SAVEPOINT with the
\* node's name and appends the node's hooks, in order, to the parent's list
C21_Release ==
  \A t \in Handles, ok \in BOOLEAN :
    LET res == SaveTxCommit(St, t, ok, TRUE, 0)
        par == nodes[t].parent IN
    (Inner(t) /\ ~IsDone(St, t) /\ nodes[t].childCount = 0) =>
       /\ res.s.sql = <<Stmt("RELEASE", nodes[t].name, nodes[t].root,
                             ptx[nodes[t].root].state = "open")>>
       /\ res.ret = Nil =>
            res.s.nodes[par].hooks = nodes[par].hooks \o nodes[t].hooks

\* C21: savepoint variant, a successful TxCommit of an inner node issues
\* RELEASE SAVEPOINT with its own name and appends its accumulated hooks, in
\* order, to its parent's list; consequently, when the physical COMMIT has
\* fired, every hook registered on a node N such that TxCommit returned nil
\* for N and for every ancestor of N is in the outermost node's hook list
\* and is executed.
C21_Claim ==
  variant = Savepoint =>
    /\ C21_Release
    /\ \A h \in 1..Len(hookAt) :
         (\A n \in Chain(hookAt[h]) : fate[n] = "commit") =>
            /\ h \in HookSet(nodes[nodes[hookAt[h]].root].hooks)
            /\ h \in HookSet(ran)

\* ------------------------------------------------------------------ C22
\* C22: savepoint variant, when an inner node is rolled back, that node and
\* all of its descendants are terminal from then on: a later TxCommit,
\* TxRollback or TxAddEndHook on any descendant of the rolled-back node
\* returns sql.ErrTxDone and issues no RELEASE SAVEPOINT or ROLLBACK TO
\* SAVEPOINT, while the nodes outside that subtree stay non-terminal.
C22_Claim ==
  variant = Savepoint =>
    /\ \A t \in Handles, d \in Handles :
         (Inner(t) /\ RolledBack(t) /\ t \in Chain(d)) =>
            /\ SaveTxCommit(St, d, TRUE, TRUE, 0) = Res(St, ErrTxDone)
            /\ SaveTxRollback(St, d, TRUE) = Res(St, ErrTxDone)
            /\ SaveTxAddEndHook(St, d) = Res(St, ErrTxDone)
    /\ \A t \in Handles, u \in Handles :
         (Inner(t) /\ ~IsDone(St, t) /\ t \notin Chain(u)) =>
            SaveTxRollback(St, t, TRUE).s.nodes[u].done = nodes[u].done

\* ------------------------------------------------------------------ C23
\* after s, every TxCommit and TxRollback on a node of the tree of r returns
\* sql.ErrTxDone and every TxFinish returns nil, with no effect at all
TornDown(s, r) ==
  \A u \in 1..Len(s.nodes), ok \in BOOLEAN :
    s.nodes[u].root = r =>
      /\ SaveTxCommit(s, u, ok, ok, 0) = Res(s, ErrTxDone)
      /\ SaveTxRollback(s, u, ok) = Res(s, ErrTxDone)
      /\ SaveTxFinish(s, u, ok) = Res(s, Nil)

\* C23: savepoint variant, TxRollback on the outermost node issues the
\* physical ROLLBACK (not a savepoint statement) and tears the whole tree
\* down: afterwards TxCommit and TxRollback on every node of the tree return
\* sql.ErrTxDone, TxFinish returns nil, and no RELEASE SAVEPOINT, ROLLBACK
\* TO SAVEPOINT, COMMIT or second ROLLBACK is issued.
C23_Theorem ==
  variant = Savepoint =>
    /\ \A t \in Handles, ok \in BOOLEAN :
         LET res == SaveTxRollback(St, t, ok) IN
         (~Inner(t) /\ ~IsDone(St, t)) =>
            /\ res.ret = IF ok THEN Nil ELSE ErrRollback
            /\ res.s.sql = <<Stmt("ROLLBACK", 0, t, TRUE)>>
            /\ res.s.ptx[t].state = "rolledback"
            /\ TornDown([res.s EXCEPT !.sql = <<>>], t)
    /\ \A t \in Handles :
         (~Inner(t) /\ RolledBack(t)) =>
            /\ TornDown(St, t)
            /\ ptx[t].nRollback = 1
            /\ ptx[t].nCommit = 0

\* the outermost node was rolled back while an inner node was open: the
\* inner node's commit finds the tree terminal
C23_Witness ==
  \E u \in Handles :
    /\ variant = Savepoint
    /\ Inner(u)
    /\ ~nodes[u].done
    /\ fate[u] = ""
    /\ RolledBack(1)
    /\ ptx[1].state = "rolledback"
    /\ ptx[1].nRollback = 1
    /\ SaveTxCommit(St, u, TRUE, TRUE, 0) = Res(St, ErrTxDone)
    /\ SaveTxFinish(St, u, TRUE) = Res(St, Nil)

\* ------------------------------------------------------------------ C24
\* direct children of p whose own done flag is not set
OpenKids(s, p) ==
  Cardinality({u \in 1..Len(s.nodes) :
                 s.nodes[u].parent = p /\ ~s.nodes[u].done})

RollbackCalls(sql) ==
  Cardinality({i \in 1..Len(sql) : sql[i].k = "ROLLBACK"})

\* the rest of call c decrements the childCount of the parent of c.t
Decrements(c) ==
  /\ Inner(c.t)
  /\ \/ c.op = "rollback" /\ variant = Savepoint
     \/ c.op = "commit" /\ nodes[c.t].childCount = 0

\* C24: nothing protects the tree against concurrent callers.  When two
\* threads have both passed the terminal test of TxRollback or TxCommit on
\* nodes of one tree before either has set a done flag, letting both run on
\* calls Rollback on the physical transaction twice (sql.Tx refuses the
\* second call), or decrements the parent's childCount twice for one node
\* that became done.
C24_Theorem ==
  \A a \in Threads, b \in Threads :
    LET ca == inside[a]
        cb == inside[b]
        r1 == RaceBody(St, ca, TRUE)
        r2 == RaceBody(r1.s, cb, TRUE)
    IN (/\ a # b /\ ca # Idle /\ cb # Idle
        /\ ~IsDone(St, ca.t) /\ ~IsDone(St, cb.t)) =>
         /\ ( /\ nodes[ca.t].root = nodes[cb.t].root
              /\ ca.op = "rollback" /\ cb.op = "rollback"
              /\ variant = Savepoint => (~Inner(ca.t) /\ ~Inner(cb.t)) )
            => /\ RollbackCalls(r2.s.sql) = 2
               /\ r2.s.sql[1].sent /\ ~r2.s.sql[2].sent
               /\ r1.ret = Nil /\ r2.ret = ErrTxDone
         /\ (ca.t = cb.t /\ Decrements(ca) /\ Decrements(cb))
            => LET par == nodes[ca.t].parent IN
               /\ r2.s.nodes[par].childCount = nodes[par].childCount - 2
               /\ OpenKids(r2.s, par) = OpenKids(St, par) - 1

\* both threads have returned and a node is left with a negative childCount
C24_Witness ==
  /\ \A th \in Threads : inside[th] = Idle
  /\ \E n \in Handles :
       /\ nodes[n].childCount < 0
       /\ OpenKids(St, n) = 0

\* ------------------------------------------------------------------ C25
\* C25: one sequential caller, both variants, any sequence of TxBegin,
\* TxCommit, TxRollback and TxFinish on any nodes: the childCount of every
\* node is at least 0, and in the savepoint variant it is the number of the
\* node's direct children (those whose TxBegin succeeded) whose own done
\* flag is not set.
C25_Theorem ==
  \A n \in Handles :
    /\ nodes[n].childCount >= 0
    /\ variant = Savepoint => nodes[n].childCount = OpenKids(St, n)

\* savepoint variant, calls out of order: a node that is itself done has
\* one child that was finished and one that is still open
C25_Witness ==
  \E n \in Handles, u \in Handles, v \in Handles :
    /\ variant = Savepoint
    /\ nodes[n].done
    /\ nodes[u].parent = n /\ nodes[u].done
    /\ nodes[v].parent = n /\ ~nodes[v].done
    /\ nodes[n].childCount = 1

\* ------------------------------------------------------------------ C26
\* res hands neither a COMMIT nor a ROLLBACK to the physical transaction
NoPhysEnd(res) == ~Calls(res, "COMMIT") /\ ~Calls(res, "ROLLBACK")

\* C26: one sequential caller, both variants: a tree never receives both a
\* successful physical COMMIT and a physical ROLLBACK, it receives at most
\* one physical COMMIT attempt and at most one physical ROLLBACK, and once a
\* successful COMMIT or a ROLLBACK has been issued, no TxCommit, TxRollback
\* or TxFinish on a node of the tree issues a further COMMIT or ROLLBACK.
C26_Theorem ==
  \A r \in Handles :
    ~Inner(r) =>
      /\ ptx[r].nCommit <= 1
      /\ ptx[r].nRollback <= 1
      /\ ptx[r].state = "committed" => ptx[r].nRollback = 0
      /\ ptx[r].nRollback = 1 => ptx[r].state = "rolledback"
      /\ (ptx[r].state = "committed" \/ ptx[r].nRollback = 1) =>
           \A t \in Handles, ok1 \in BOOLEAN :
             nodes[t].root = r =>
               /\ \A ok2 \in Ok2s(ok1), bad \in BadIds(ok1) :
                    NoPhysEnd(TxCommit(St, t, ok1, ok2, bad))
               /\ NoPhysEnd(TxRollback(St, t, ok1))
               /\ NoPhysEnd(TxFinish(St, t, ok1))

\* the tree was committed, and a node begun on it afterwards is still open
C26_Witness ==
  \E u \in Handles :
    /\ Inner(u)
    /\ ~nodes[u].done
    /\ ptx[nodes[u].root].state = "committed"
    /\ ptx[nodes[u].root].nCommit = 1
    /\ ptx[nodes[u].root].nRollback = 0
    /\ TxCommit(St, u, TRUE, TRUE, 0) = Res(St, ErrTxDone)

\* ------------------------------------------------------------------ C27
\* C27: a Do invoked on the Root handle returns nil only if the physical
\* COMMIT of its tree succeeded and every end hook returned nil.  In the
\* counting variant, when an inner unit was rolled back and the outer body
\* returns nil all the same, the outer Do returns sql.ErrTxDone; a failed
\* physical COMMIT never makes Do return nil.
C27_Theorem ==
  (stack # <<>> /\ ~Inner(Top)) =>
    \A out \in Outs, ok1 \in BOOLEAN, ok3 \in BOOLEAN :
    \A ok2 \in Ok2s(ok1), bad \in BadIds(ok1) :
      LET res == DoReturn(St, Top, out, ok1, ok2, ok3, bad) IN
      /\ res.ret = Nil =>
           /\ out = Nil
           /\ ok1
           /\ res.s.sql = <<Stmt("COMMIT", 0, Top, TRUE)>>
           /\ res.s.ptx[Top].state = "committed"
           /\ bad \notin HookSet(nodes[Top].hooks)
           /\ res.s.ran = ran \o nodes[Top].hooks
      /\ (out = Nil /\ ~ok1) => res.ret \notin {Nil, Panic, ErrBody}
      /\ ( /\ variant = Counting
           /\ out = Nil
           /\ \E u \in Handles : Inner(u) /\ SameTree(u, Top) /\ RolledBack(u) )
         => res.ret = ErrTxDone /\ res.s = St

\* counting variant: the body of a Do on the Root handle is about to return
\* after an inner unit was rolled back and a hook was registered
C27_Witness ==
  /\ variant = Counting
  /\ stack = <<1>>
  /\ ~Inner(1)
  /\ \E u \in Handles : Inner(u) /\ RolledBack(u)
  /\ hookAt # <<>>
  /\ DoReturn(St, 1, Nil, TRUE, TRUE, TRUE, 0) = Res(St, ErrTxDone)

\* ------------------------------------------------------------------ C28
\* every RELEASE SAVEPOINT and ROLLBACK TO SAVEPOINT among the statements of
\* res names a savepoint that is active in the physical transaction of r
NamesActive(res, r) ==
  \A i \in 1..Len(res.s.sql) :
    res.s.sql[i].k \in SavepointStmts \ {"SAVEPOINT"} =>
      FrameIdx(ptx[r].frames, res.s.sql[i].name) # 0

\* C28: savepoint variant, stack discipline towards the database: every
\* RELEASE SAVEPOINT and ROLLBACK TO SAVEPOINT that is issued names a
\* savepoint that is still active in the physical transaction (created, not
\* released since, not destroyed by the release of or the rollback to an
\* earlier savepoint), also when several children of one node are open at
\* once and finish in any order, and when a node finishes before its own
\* children.
C28_Claim ==
  variant = Savepoint =>
    \A t \in Handles :
      /\ NamesActive(SaveTxCommit(St, t, TRUE, TRUE, 0), nodes[t].root)
      /\ NamesActive(SaveTxRollback(St, t, TRUE), nodes[t].root)
      /\ NamesActive(SaveTxFinish(St, t, TRUE), nodes[t].root)

\* ------------------------------------------------------------------ C29
\* C29: in both variants and for any sequence of calls, at the moment the
\* physical COMMIT is issued no unit of work of the tree is open at any
\* depth: every node of the tree other than the committing outermost node
\* has its own done flag set (also after TxBegin on a node that has already
\* committed, and after the rollback of an inner node that still has open
\* children).
C29_Claim ==
  \A t \in Handles, ok1 \in BOOLEAN :
    Calls(TxCommit(St, t, ok1, TRUE, 0), "COMMIT") =>
      \A u \in Handles \ {t} : SameTree(u, t) => nodes[u].done

\* ------------------------------------------------------------------ C30
\* the call returns the same in both controllers
SameRet(rs, rc) == Plain(rs, rc) => rs.ret = rc.ret

\* C30: the two controllers are interchangeable when nothing is rolled back
\* at an inner level: for every sequence of TxBegin, TxCommit, TxRollback,
\* TxFinish and TxAddEndHook calls in which no inner node is rolled back
\* (explicitly, by TxFinish or through ErrChildrenNotDone) and no SQL
\* statement fails, the counting and the savepoint variant return the same
\* for every call, take the same physical COMMIT-or-ROLLBACK decision and
\* execute the same set of end hooks.
C30_Claim ==
  /\ \A t \in Handles :
       /\ SameRet(SaveTxCommit(St, t, TRUE, TRUE, 0),
                  CountTxCommit(twin, t, TRUE, TRUE, 0))
       /\ SameRet(SaveTxRollback(St, t, TRUE), CountTxRollback(twin, t, TRUE))
       /\ SameRet(SaveTxFinish(St, t, TRUE), CountTxFinish(twin, t, TRUE))
       /\ SameRet(SaveTxAddEndHook(St, t), CountTxAddEndHook(twin, t))
       /\ Len(nodes) < MaxNodes =>
            SameRet(SaveTxBegin(St, t, TRUE), CountTxBegin(twin, t))
  /\ \A r \in Handles : ptx[r].state = twin.ptx[r].state
  /\ HookSet(ran) = HookSet(twin.ran)

====
